---- MODULE Spec2Model ----
(***************************************************************************)
(* Comment-tree summary extraction and URL resolution of the reddit        *)
(* scraper (scripts/utils/metadata_utils.py, scripts/process_raw.py,       *)
(* write_to_google_sheets.py).                                             *)
(*                                                                         *)
(* Text is a sequence of one-character strings.  Three multi-character     *)
(* strings are written as one token each: "S" is the scheme "https://",    *)
(* "R" is "https://www.reddit.com" and "/r/" is the cross-post prefix.     *)
(***************************************************************************)
EXTENDS Integers, Sequences, FiniteSets, TLC

VARIABLES
    comments,     \* the comment forest handed to the two extractors
    queue,        \* deque of extract_article_summary_from_comments
    summary,      \* its list of recorded bodies
    popped,       \* the comments queue.popleft() has returned, in order
    pc,           \* "loop" while the deque loop runs, "done" after the return
    result,       \* its returned string
    X,            \* index stack of extract_summary
    V,            \* list stack of extract_summary
    summary2,     \* list of recorded bodies of extract_summary
    pc2,          \* "loop" / "done" of extract_summary
    result2,      \* returned string of extract_summary
    submission,   \* the record process_raw_data works on
    ppc,          \* "ready" before process_raw_data, "done" after it
    raised,       \* the exception process_raw_data ended with, or "none"
    fetches,      \* number of cross-post selftext fetches made
    fetchlog,     \* what each cross-post selftext fetch gave, in call order
    resolver,     \* one call of fetch_article_metadata: arguments, position, result
    matcher,      \* one call of closest_match: arguments, loop state, result
    driver        \* one run of a driver script over the stored records

vars == <<comments, queue, summary, popped, pc, result, X, V, summary2, pc2, result2,
          submission, ppc, raised, fetches, fetchlog, resolver, matcher, driver>>

extractVars == <<comments, queue, summary, popped, pc, result, X, V, summary2, pc2, result2>>
processVars == <<submission, ppc, raised, fetches, fetchlog>>
metadataVars == <<resolver, matcher, driver>>

\* the parts of the state a specification leaves alone
IdleExtract ==
    /\ comments = [ isNone |-> FALSE, n |-> 0, parent |-> <<>>, is_submitter |-> <<>>,
                    body |-> <<>>, roots |-> <<>>, replies |-> <<>> ]
    /\ queue = <<>>
    /\ summary = <<>>
    /\ popped = <<>>
    /\ pc = "idle"
    /\ result = <<>>
    /\ X = <<>>
    /\ V = <<>>
    /\ summary2 = <<>>
    /\ pc2 = "idle"
    /\ result2 = <<>>

IdleProcess ==
    /\ submission = [ isNone |-> TRUE ]
    /\ ppc = "idle"
    /\ raised = "none"
    /\ fetches = 0
    /\ fetchlog = <<>>

IdleResolver == resolver = [ pc |-> "idle" ]

IdleMatcher == matcher = [ pc |-> "idle" ]

IdleDriver == driver = [ pc |-> "idle" ]

(***************************************************************************)
(* Bounds                                                                  *)
(***************************************************************************)
\* largest number of comments in a forest handed to the extractors
MaxNodes == 4
\* largest number of pieces a selftext is put together from
MaxPieces == 2

(***************************************************************************)
(* Text helpers                                                            *)
(***************************************************************************)
Digit == <<"1", "2", "3", "4", "5", "6", "7", "8", "9">>

RECURSIVE Reverse(_)
Reverse(s) == IF s = <<>> THEN <<>> ELSE Append(Reverse(Tail(s)), Head(s))

RECURSIVE SortedSeq(_)
SortedSeq(S) ==
    IF S = {} THEN <<>>
    ELSE LET m == CHOOSE x \in S : \A y \in S : x <= y
         IN  <<m>> \o SortedSeq(S \ {m})

\* the separator '\n\n∴\n\n'; "therefore" is the character U+2234
SEPARATOR == <<"\n", "\n", "therefore", "\n", "\n">>

\* str.join
RECURSIVE Join(_, _)
Join(parts, sep) ==
    IF parts = <<>> THEN <<>>
    ELSE IF Len(parts) = 1 THEN Head(parts)
    ELSE Head(parts) \o sep \o Join(Tail(parts), sep)

StartsWith(text, prefix) ==
    /\ Len(text) >= Len(prefix)
    /\ SubSeq(text, 1, Len(prefix)) = prefix

AMP_ENTITY == <<"&", "a", "m", "p", ";">>

\* html.unescape, for the entity &amp; (the only one the bodies here hold)
RECURSIVE Unescape(_)
Unescape(text) ==
    IF text = <<>> THEN <<>>
    ELSE IF StartsWith(text, AMP_ENTITY)
         THEN <<"&">> \o Unescape(SubSeq(text, Len(AMP_ENTITY) + 1, Len(text)))
         ELSE <<Head(text)>> \o Unescape(Tail(text))

(***************************************************************************)
(* Comment forests.  A comment is its index; the forest holds the fields   *)
(* of every comment: parent (0 for a root level comment), is_submitter,    *)
(* body and the replies list.  Reply order is the order of the indices.    *)
(***************************************************************************)
Parents(n) == {p \in [1..n -> 0..(n - 1)] : \A k \in 1..n : p[k] < k}

BodyOf(k) == IF k = 2 THEN AMP_ENTITY \o <<Digit[k]>> ELSE <<"c", Digit[k]>>

ChildrenOf(p, k) == SortedSeq({c \in DOMAIN p : p[c] = k})

MkForest(n, p, s) ==
    [ isNone       |-> FALSE,
      n            |-> n,
      parent       |-> p,
      is_submitter |-> s,
      body         |-> [k \in 1..n |-> BodyOf(k)],
      roots        |-> ChildrenOf(p, 0),
      replies      |-> [k \in 1..n |-> ChildrenOf(p, k)] ]

ForestsOfSize(n) == {MkForest(n, p, s) : p \in Parents(n), s \in [1..n -> BOOLEAN]}

Forests(max) == UNION {ForestsOfSize(n) : n \in 0..max}

(***************************************************************************)
(* extract_article_summary_from_comments (deque version)                   *)
(***************************************************************************)
\* collections.deque.extendleft: a series of left appends, which reverses
\* the order of the appended items
ExtendLeft(q, items) == Reverse(items) \o q

\* LoopBody with the replies pushed whoever wrote the comment
LoopBody_DescendsBelowOthers(f, q, s) ==
    LET comment == Head(q)
        rest    == Tail(q)
    IN  [ queue   |-> ExtendLeft(rest, f.replies[comment]),
          summary |-> IF f.is_submitter[comment]
                      THEN Append(s, f.body[comment]) ELSE s,
          forest  |-> f ]

\* LoopBody with the replies moved out of the comment's own list
LoopBody_DrainsReplies(f, q, s) ==
    LET comment == Head(q)
        rest    == Tail(q)
    IN  IF f.is_submitter[comment]
        THEN [ queue   |-> ExtendLeft(rest, f.replies[comment]),
               summary |-> Append(s, f.body[comment]),
               forest  |-> [f EXCEPT !.replies[comment] = <<>>] ]
        ELSE [ queue |-> rest, summary |-> s, forest |-> f ]

\* LoopBody with the comment read from the queue but left in it
LoopBody_PeeksOnly(f, q, s) ==
    LET comment == Head(q)
    IN  IF f.is_submitter[comment]
        THEN [ queue   |-> ExtendLeft(q, f.replies[comment]),
               summary |-> Append(s, f.body[comment]),
               forest  |-> f ]
        ELSE [ queue |-> q, summary |-> s, forest |-> f ]

\* one iteration of the while loop; `forest` is the input as the iteration
\* leaves it: the deque is a copy of the root list, and the replies are
\* read, never written
LoopBody(f, q, s) ==
    LET comment == Head(q)
        rest    == Tail(q)
    IN  IF f.is_submitter[comment]
        THEN [ queue   |-> ExtendLeft(rest, f.replies[comment]),
               summary |-> Append(s, f.body[comment]),
               forest  |-> f ]
        ELSE [ queue |-> rest, summary |-> s, forest |-> f ]

RECURSIVE ExtractLoop(_, _, _)
ExtractLoop(f, q, s) ==
    IF q = <<>> THEN s
    ELSE LET st == LoopBody(f, q, s) IN ExtractLoop(f, st.queue, st.summary)

\* the join and html.unescape before the return
FinishSummary(s) == Unescape(Join(s, SEPARATOR))

\* the whole function, on a forest
extract_article_summary_from_comments(f) ==
    FinishSummary(ExtractLoop(f, f.roots, <<>>))

(***************************************************************************)
(* extract_summary (explicit-stack version, write_to_google_sheets.py)     *)
(***************************************************************************)
StackBody(f, x, v, s) ==
    LET top == Len(x) IN
    IF x[top] >= Len(v[top])
    THEN [ X |-> SubSeq(x, 1, top - 1), V |-> SubSeq(v, 1, top - 1), summary |-> s ]
    ELSE LET comment == v[top][x[top] + 1]
             x1      == [x EXCEPT ![top] = @ + 1]
         IN  IF f.is_submitter[comment]
             THEN LET replies == f.replies[comment]
                  IN  IF replies # <<>>
                      THEN [ X |-> Append(x1, 0), V |-> Append(v, replies),
                             summary |-> Append(s, f.body[comment]) ]
                      ELSE [ X |-> x1, V |-> v, summary |-> Append(s, f.body[comment]) ]
             ELSE [ X |-> x1, V |-> v, summary |-> s ]


(***************************************************************************)
(* Text of submissions.  None and an unset dictionary key are two marker   *)
(* values that no text equals.                                             *)
(***************************************************************************)
None == <<"<None>">>
ABSENT == <<"<absent>">>
NoneComments == [ isNone |-> TRUE ]

IsSpace(c) == c = " "

\* str.strip(chars)
RECURSIVE StripLeft(_, _)
StripLeft(text, chars) ==
    IF text # <<>> /\ Head(text) \in chars THEN StripLeft(Tail(text), chars) ELSE text

Strip(text, chars) == Reverse(StripLeft(Reverse(StripLeft(text, chars)), chars))

\* index of the first c at or after position i, 0 when there is none
RECURSIVE IndexFrom(_, _, _)
IndexFrom(text, c, i) ==
    IF i > Len(text) THEN 0
    ELSE IF text[i] = c THEN i ELSE IndexFrom(text, c, i + 1)

\* end of the run of non-space characters that starts at position i
RECURSIVE RunEnd(_, _)
RunEnd(text, i) ==
    IF i < Len(text) /\ ~IsSpace(text[i + 1]) THEN RunEnd(text, i + 1) ELSE i

\* A Markdown link [label](url) opening at position i: the label runs to the
\* first "](" that is followed by a URL (scheme, then at least one character,
\* none of them a space) closed by the first ")".
RECURSIVE LinkAt(_, _, _)
LinkAt(text, i, j) ==
    LET close == IndexFrom(text, "]", j) IN
    IF close = 0 \/ close + 3 > Len(text) THEN [ ok |-> FALSE ]
    ELSE LET paren == IndexFrom(text, ")", close + 3)
         IN  IF /\ text[close + 1] = "("
                /\ text[close + 2] = "S"
                /\ paren > close + 3
                /\ \A x \in (close + 3)..(paren - 1) : ~IsSpace(text[x])
             THEN [ ok    |-> TRUE,
                    label |-> SubSeq(text, i + 1, close - 1),
                    url   |-> SubSeq(text, close + 2, paren - 1),
                    last  |-> paren ]
             ELSE LinkAt(text, i, close + 1)

RECURSIVE ScanLinks(_, _)
ScanLinks(text, i) ==
    IF i > Len(text) THEN <<>>
    ELSE IF text[i] = "["
         THEN LET m == LinkAt(text, i, i + 2)
              IN  IF m.ok THEN <<<<m.label, m.url>>>> \o ScanLinks(text, m.last + 1)
                  ELSE ScanLinks(text, i + 1)
         ELSE ScanLinks(text, i + 1)

\* the (description, url) pairs of the Markdown links of text, in text order
extract_markdown_urls(text) == ScanLinks(text, 1)

RECURSIVE ScanUrls(_, _)
ScanUrls(text, i) ==
    IF i >= Len(text) THEN <<>>
    ELSE IF text[i] = "S" /\ ~IsSpace(text[i + 1])
         THEN LET e == RunEnd(text, i)
              IN  <<SubSeq(text, i, e)>> \o ScanUrls(text, e + 1)
         ELSE ScanUrls(text, i + 1)

\* the bare URLs of text, in text order
extract_urls(text) == ScanUrls(text, 1)

(***************************************************************************)
(* extract_paper_type_from_title.  A tag such as '[preprint]' is one token *)
(* of a title; "[Preprint]" is a tag written with a capital letter.        *)
(***************************************************************************)
Lower(c) == IF c = "[Preprint]" THEN "[preprint]" ELSE c

preprint_strs == {"[preprint]", "[pre-print]", "[pre print]"}
thesis_strs == {"[thesis]", "[dissertation]"}

StartsOrEndsWith(title, tags) ==
    /\ title # <<>>
    /\ Lower(title[1]) \in tags \/ Lower(title[Len(title)]) \in tags

extract_paper_type_from_title(title) ==
    IF StartsOrEndsWith(title, preprint_strs) THEN "preprint"
    ELSE IF StartsOrEndsWith(title, thesis_strs) THEN "thesis"
    ELSE "paper"

(***************************************************************************)
(* process_raw_data, the body of its loop for one submission               *)
(***************************************************************************)
non_research_flairs == {"Active Research", "Mod Announcement", "Mod News", "Poll", "Requests"}

REDDIT == <<"R">>

CROSSPOST_PREFIX == <<"/r/">>

\* outcomes of reddit.submission(url=...).selftext other than a text
NOT_FETCHED == <<"<not fetched>">>
FETCH_FAILS == <<"<fetch raised>">>

\* deque(None) raises TypeError
SummaryOrRaise(rec, cs) ==
    IF cs.isNone
    THEN [ rec |-> rec, raised |-> "TypeError" ]
    ELSE [ rec    |-> [rec EXCEPT !._summary = extract_article_summary_from_comments(cs)],
           raised |-> "none" ]

\* `comments or []`
OrEmptyList(cs) == IF cs.isNone \/ cs.n = 0 THEN MkForest(0, <<>>, <<>>) ELSE cs

\* the for ... else over the links of case 1c
\* the for ... else comparing the label as written, without strip('*_')
RECURSIVE FirstSelfDescribing_NoStrip(_, _)
FirstSelfDescribing_NoStrip(links, i) ==
    IF i > Len(links) THEN links[1][2]
    ELSE IF links[i][1] = links[i][2] THEN links[i][2]
    ELSE FirstSelfDescribing_NoStrip(links, i + 1)

RECURSIVE FirstSelfDescribing(_, _)
FirstSelfDescribing(links, i) ==
    IF i > Len(links) THEN links[1][2]
    ELSE IF Strip(links[i][1], {"*", "_"}) = links[i][2] THEN links[i][2]
    ELSE FirstSelfDescribing(links, i + 1)

\* case 1a taking the last URL of the title
Case1a_LastTitleUrl(s) ==
    LET title_urls == extract_urls(s.title)
    IN  [ rec    |-> [s EXCEPT !._real_url = IF Len(title_urls) > 0
                                             THEN title_urls[Len(title_urls)] ELSE None,
                               !._summary = s.selftext],
          raised |-> "none" ]

Case1a(s) ==
    LET title_urls == extract_urls(s.title)
    IN  [ rec    |-> [s EXCEPT !._real_url = IF Len(title_urls) > 0 THEN title_urls[1] ELSE None,
                               !._summary = s.selftext],
          raised |-> "none" ]

Case1b(s, descriptions_and_urls) ==
    SummaryOrRaise([s EXCEPT !._real_url = descriptions_and_urls[1][2]], s.comments)

\* case 1c adding the selftext to the summary a previous pass stored
Case1c_SummaryGrows(s, descriptions_and_urls) ==
    [ rec    |-> [s EXCEPT !._real_url = FirstSelfDescribing(descriptions_and_urls, 1),
                           !._summary = IF s._summary = ABSENT THEN s.selftext
                                        ELSE s._summary \o s.selftext],
      raised |-> "none" ]

Case1c(s, descriptions_and_urls) ==
    [ rec    |-> [s EXCEPT !._real_url = FirstSelfDescribing(descriptions_and_urls, 1),
                           !._summary = s.selftext],
      raised |-> "none" ]

Case1(s) ==
    LET descriptions_and_urls == extract_markdown_urls(s.selftext)
    IN  IF Len(descriptions_and_urls) = 0
        THEN Case1a(s)
        ELSE IF s.selftext = <<"[">> \o descriptions_and_urls[1][1] \o <<"]", "(">>
                                \o descriptions_and_urls[1][2] \o <<")">>
             THEN Case1b(s, descriptions_and_urls)
             ELSE Case1c(s, descriptions_and_urls)

\* case 2 looking for a bare URL before looking for a Markdown link
Case2_BareUrlFirst(s, fetched) ==
    IF fetched = FETCH_FAILS
    THEN [ rec |-> s, raised |-> "FetchError" ]
    ELSE LET s1        == [s EXCEPT !._crosspost_selftext = fetched]
             real_urls == extract_markdown_urls(fetched)
             bare_urls == extract_urls(fetched)
         IN  [ rec    |-> [s1 EXCEPT
                             !._real_url = IF Len(bare_urls) > 0 THEN bare_urls[1]
                                           ELSE IF Len(real_urls) > 0 THEN real_urls[1][2]
                                           ELSE None,
                             !._summary = fetched],
               raised |-> "none" ]

Case2(s, fetched) ==
    IF fetched = FETCH_FAILS
    THEN [ rec |-> s, raised |-> "FetchError" ]
    ELSE LET s1        == [s EXCEPT !._crosspost_selftext = fetched]
             real_urls == extract_markdown_urls(fetched)
             bare_urls == extract_urls(fetched)
         IN  [ rec    |-> [s1 EXCEPT
                             !._real_url = IF Len(real_urls) > 0 THEN real_urls[1][2]
                                           ELSE IF Len(bare_urls) > 0 THEN bare_urls[1]
                                           ELSE None,
                             !._summary = fetched],
               raised |-> "none" ]

\* case 3 without the `or []`
Case3_NoEmptyDefault(s) ==
    SummaryOrRaise([s EXCEPT !._real_url = s.url], s.comments)

Case3(s) ==
    SummaryOrRaise([s EXCEPT !._real_url = s.url], OrEmptyList(s.comments))

IsSelfPost(s) == s.url = REDDIT \o s.permalink

IsCrossPost(s) == ~IsSelfPost(s) /\ StartsWith(s.url, CROSSPOST_PREFIX)

ProcessSubmission(s, fetched) ==
    LET is_research == s.link_flair_text \notin non_research_flairs
        s1 == [s EXCEPT !._is_research = IF is_research THEN "True" ELSE "False"]
        s2 == [s1 EXCEPT !._paper_type = extract_paper_type_from_title(s.title)]
    IN  IF ~is_research THEN [ rec |-> s1, raised |-> "none" ]
        ELSE IF IsSelfPost(s2) THEN Case1(s2)
        ELSE IF StartsWith(s2.url, CROSSPOST_PREFIX) THEN Case2(s2, fetched)
        ELSE Case3(s2)

(***************************************************************************)
(* Running the two extractors on one forest, one loop iteration a step     *)
(***************************************************************************)
NoSubmission == [ isNone |-> TRUE ]

InitExtract ==
    /\ comments \in Forests(MaxNodes)
    /\ queue = comments.roots
    /\ summary = <<>>
    /\ popped = <<>>
    /\ pc = "loop"
    /\ result = <<>>
    /\ X = <<0>>
    /\ V = <<comments.roots>>
    /\ summary2 = <<>>
    /\ pc2 = "loop"
    /\ result2 = <<>>
    /\ submission = NoSubmission
    /\ ppc = "idle"
    /\ raised = "none"
    /\ fetches = 0
    /\ fetchlog = <<>>
    /\ IdleResolver
    /\ IdleMatcher
    /\ IdleDriver

\* one iteration of `while queue:`
DequeStep ==
    /\ pc = "loop"
    /\ queue # <<>>
    /\ LET st == LoopBody(comments, queue, summary)
       IN  /\ queue' = st.queue
           /\ summary' = st.summary
           /\ comments' = st.forest
    /\ popped' = Append(popped, Head(queue))
    /\ UNCHANGED <<pc, result, X, V, summary2, pc2, result2, processVars, metadataVars>>

\* the loop has ended: join, unescape, return
DequeReturn ==
    /\ pc = "loop"
    /\ queue = <<>>
    /\ result' = FinishSummary(summary)
    /\ pc' = "done"
    /\ UNCHANGED <<comments, queue, summary, popped, X, V, summary2, pc2, result2, processVars, metadataVars>>

\* one iteration of `while X:`
StackStep ==
    /\ pc2 = "loop"
    /\ X # <<>>
    /\ LET st == StackBody(comments, X, V, summary2)
       IN  /\ X' = st.X
           /\ V' = st.V
           /\ summary2' = st.summary
    /\ UNCHANGED <<comments, queue, summary, popped, pc, result, pc2, result2, processVars, metadataVars>>

StackReturn ==
    /\ pc2 = "loop"
    /\ X = <<>>
    /\ result2' = FinishSummary(summary2)
    /\ pc2' = "done"
    /\ UNCHANGED <<comments, queue, summary, popped, pc, result, X, V, summary2, processVars, metadataVars>>

NextExtract == DequeStep \/ DequeReturn \/ StackStep \/ StackReturn

SpecExtract == InitExtract /\ [][NextExtract]_vars

(***************************************************************************)
(* Vocabulary of the claims about the extractors                           *)
(***************************************************************************)
CommentIds == 1..comments.n

\* k and all of its ancestors are submitter-authored
RECURSIVE Chain(_)
Chain(k) ==
    IF k = 0 THEN TRUE
    ELSE comments.is_submitter[k] /\ Chain(comments.parent[k])

\* d lies in the subtree of k (d = k included)
RECURSIVE InSubtree(_, _)
InSubtree(d, k) ==
    IF d = 0 THEN FALSE
    ELSE d = k \/ InSubtree(comments.parent[d], k)

Occurrences(s, b) == Cardinality({i \in 1..Len(s) : s[i] = b})

Pos(k) == CHOOSE i \in 1..Len(summary) : summary[i] = comments.body[k]

\* C1: when the deque extractor has returned, for every visited
\* submitter-authored comment p and every two submitter-authored replies r1
\* before r2 in p's replies list, the body of r1 stands before the body of r2
\* in the recorded output.
C1_RepliesRecordedInReplyOrder ==
    pc = "done" =>
        \A p, r1, r2 \in CommentIds :
            ( /\ Chain(p)
              /\ comments.parent[r1] = p
              /\ comments.parent[r2] = p
              /\ r1 < r2
              /\ comments.is_submitter[r1]
              /\ comments.is_submitter[r2] )
            => Pos(r1) < Pos(r2)

\* C2: when the deque extractor has returned, the body of a comment is
\* recorded exactly once if the comment and all its ancestors are
\* submitter-authored and not at all otherwise; a forest without a
\* submitter-authored root comment (the empty forest included) gives the
\* empty string.
C2_RecordedExactlyTheChains ==
    pc = "done" =>
        /\ \A k \in CommentIds :
              Occurrences(summary, comments.body[k]) = IF Chain(k) THEN 1 ELSE 0
        /\ Len(summary) = Cardinality({k \in CommentIds : Chain(k)})
        /\ (\A i \in 1..Len(comments.roots) : ~comments.is_submitter[comments.roots[i]])
              => result = <<>>

\* a finished run on a forest holding a recorded reply and a submitter
\* comment below a non-submitter comment
C2_Witness ==
    /\ pc = "done"
    /\ \E k \in CommentIds : comments.is_submitter[k] /\ ~Chain(k)
    /\ \E j \in CommentIds : comments.parent[j] # 0 /\ Chain(j)

\* C3: when the deque extractor has returned, the recorded bodies of every
\* recorded comment's subtree form one contiguous block starting with the
\* comment's own body, the blocks of the root level comments stand in forest
\* order, and all of a recorded comment's block stands before the body of
\* every later sibling (later in the replies list, or later root comment).
C3_ChainBeforeLaterSiblings ==
    pc = "done" =>
        /\ \A k \in CommentIds :
              Chain(k) =>
                 LET block == {Pos(d) : d \in {e \in CommentIds : Chain(e) /\ InSubtree(e, k)}}
                 IN  block = Pos(k)..(Pos(k) + Cardinality(block) - 1)
        /\ \A r1, r2 \in CommentIds :
              ( /\ comments.parent[r1] = comments.parent[r2]
                /\ r1 < r2
                /\ Chain(r1)
                /\ Chain(r2) )
              => \A d \in CommentIds :
                    (Chain(d) /\ InSubtree(d, r1)) => Pos(d) < Pos(r2)

\* C4: when both extractors have returned on the same forest they have
\* recorded the same sequence of bodies and return the same string.
C4_SameRecordedBodies ==
    (pc = "done" /\ pc2 = "done") => (summary = summary2 /\ result = result2)


(***************************************************************************)
(* process_raw_data on one stored submission                               *)
(***************************************************************************)
\* largest number of comments of a stored submission
MaxStoredComments == 1
\* largest number of candidates handed to closest_match
MaxChoices == 2
\* largest number of records in a data file
MaxRecords == 2
\* largest number of fetch_metadata passes over one data file
MaxPasses == 2
\* largest submission id; a larger id is a newer submission
MaxId == 4

PROSE == <<"w", " ">>
SPACE == <<" ">>
BARE_URL == <<"S", "v">>
LINK_OTHER_LABEL == <<"[", "w", "]", "(", "S", "w", ")">>
LINK_URL_LABEL == <<"[", "S", "v", "]", "(", "S", "v", ")">>
LINK_STARRED_LABEL == <<"[", "*", "S", "v", "_", "]", "(", "S", "v", ")">>

Pieces == {PROSE, BARE_URL, LINK_OTHER_LABEL, LINK_URL_LABEL, LINK_STARRED_LABEL}

RECURSIVE TextsOf(_)
TextsOf(k) ==
    IF k = 0 THEN {<<>>}
    ELSE LET shorter == TextsOf(k - 1)
         IN  shorter \cup {piece \o text : piece \in Pieces, text \in shorter}

Selftexts == TextsOf(MaxPieces)

Titles ==
    { <<>>,
      <<"w">>,
      <<"w", " ", "S", "v", " ", "S", "w">>,
      <<"[Preprint]", " ", "w">>,
      <<"S", "w", " ", "[thesis]">> }

PERMALINK == <<"/r/", "a">>

Urls ==
    { REDDIT \o PERMALINK,      \* the submission's own permalink URL
      <<"/r/", "b">>,           \* a cross-post
      <<"S", "x">>,             \* an external link
      REDDIT \o <<"/r/", "b">> } \* a full link to another submission

Flairs == {"Poll", "Social Sciences"}

StoredComments == {NoneComments} \cup Forests(MaxStoredComments)

CrossTexts ==
    { <<>>,
      <<"w">>,
      <<"S", "w">>,
      <<"w", " ", "S", "v", " ", "S", "w">>,
      LINK_OTHER_LABEL,
      BARE_URL \o SPACE \o LINK_OTHER_LABEL,
      LINK_OTHER_LABEL \o LINK_URL_LABEL }

\* a record as parse_submission and fetch_comments leave it
RawSubmission(flair, title, selftext, url, cs) ==
    [ link_flair_text     |-> flair,
      title               |-> title,
      selftext            |-> selftext,
      url                 |-> url,
      permalink           |-> PERMALINK,
      comments            |-> cs,
      _is_research        |-> "absent",
      _paper_type         |-> "absent",
      _real_url           |-> ABSENT,
      _summary            |-> ABSENT,
      _crosspost_selftext |-> ABSENT ]

Init ==
    /\ submission \in { RawSubmission(flair, title, selftext, url, cs) :
                           flair \in Flairs, title \in Titles, selftext \in Selftexts,
                           url \in Urls, cs \in StoredComments }
    /\ ppc = "ready"
    /\ raised = "none"
    /\ fetches = 0
    /\ fetchlog = <<>>
    /\ IdleResolver
    /\ IdleMatcher
    /\ IdleDriver
    /\ comments = MkForest(0, <<>>, <<>>)
    /\ queue = <<>>
    /\ summary = <<>>
    /\ popped = <<>>
    /\ pc = "idle"
    /\ result = <<>>
    /\ X = <<>>
    /\ V = <<>>
    /\ summary2 = <<>>
    /\ pc2 = "idle"
    /\ result2 = <<>>

\* the cross-post selftext is fetched in case 2 only
NeedsFetch(s) == s.link_flair_text \notin non_research_flairs /\ IsCrossPost(s)

FetchOutcomes(s) == IF NeedsFetch(s) THEN CrossTexts \cup {FETCH_FAILS} ELSE {NOT_FETCHED}

ProcessRawData ==
    /\ ppc = "ready"
    /\ \E fetched \in FetchOutcomes(submission) :
          LET out == ProcessSubmission(submission, fetched)
          IN  /\ submission' = out.rec
              /\ raised' = out.raised
              /\ fetches' = IF fetched = NOT_FETCHED THEN fetches ELSE fetches + 1
              /\ fetchlog' = IF fetched = NOT_FETCHED THEN fetchlog
                             ELSE Append(fetchlog, fetched)
    /\ ppc' = "done"
    /\ UNCHANGED <<extractVars, metadataVars>>

Next == ProcessRawData

Spec == Init /\ [][Next]_vars

(***************************************************************************)
(* process_raw.py run a second time on the records the first run wrote     *)
(* (start.py runs it on every execution of the pipeline)                   *)
(***************************************************************************)
\* at the second fetch the cross-posted submission still has the text it
\* had, or its text was removed, or the fetch fails
RefetchOutcomes(s, log) ==
    IF NeedsFetch(s) THEN {log[Len(log)], <<>>, FETCH_FAILS} ELSE {NOT_FETCHED}

ProcessRawDataAgain ==
    /\ ppc = "done"
    /\ \E fetched \in RefetchOutcomes(submission, fetchlog) :
          LET out == ProcessSubmission(submission, fetched)
          IN  /\ submission' = out.rec
              /\ raised' = out.raised
              /\ fetches' = IF fetched = NOT_FETCHED THEN fetches ELSE fetches + 1
              /\ fetchlog' = IF fetched = NOT_FETCHED THEN fetchlog
                             ELSE Append(fetchlog, fetched)
    /\ ppc' = "again"
    /\ UNCHANGED <<extractVars, metadataVars>>

NextRerun == ProcessRawData \/ ProcessRawDataAgain

SpecRerun == Init /\ [][NextRerun]_vars


(***************************************************************************)
(* Vocabulary of the claims about process_raw_data                         *)
(***************************************************************************)
Processed == ppc = "done"

Research == submission.link_flair_text \notin non_research_flairs

SelfPost == submission.url = REDDIT \o submission.permalink

CrossPost == ~SelfPost /\ StartsWith(submission.url, CROSSPOST_PREFIX)

ExternalLink == ~SelfPost /\ ~StartsWith(submission.url, CROSSPOST_PREFIX)

\* text[open] .. text[last] is a Markdown link whose label ends at text[close]
IsLink(text, open, close, last) ==
    /\ text[open] = "["
    /\ close >= open + 2
    /\ last >= close + 4
    /\ text[close] = "]"
    /\ text[close + 1] = "("
    /\ text[close + 2] = "S"
    /\ text[last] = ")"
    /\ \A x \in (close + 3)..(last - 1) : text[x] # " " /\ text[x] # ")"

LinkOpenings(text) ==
    {open \in DOMAIN text : \E close, last \in DOMAIN text : IsLink(text, open, close, last)}

ContainsMarkdownLink(text) == LinkOpenings(text) # {}

\* the text is one Markdown link and nothing else
IsOneLinkOnly(text) ==
    /\ LinkOpenings(text) = {1}
    /\ \E close \in DOMAIN text : IsLink(text, 1, close, Len(text))

TargetOfOneLink(text) ==
    LET close == CHOOSE c \in DOMAIN text : IsLink(text, 1, c, Len(text))
    IN  SubSeq(text, close + 2, Len(text) - 1)

\* positions where a bare URL starts: the scheme followed by a non-space
UrlStarts(text) ==
    {i \in DOMAIN text : text[i] = "S" /\ i < Len(text) /\ text[i + 1] # " "}

FirstBareUrl(text) ==
    IF UrlStarts(text) = {} THEN None
    ELSE LET i == CHOOSE a \in UrlStarts(text) : \A b \in UrlStarts(text) : a <= b
             e == CHOOSE a \in i..Len(text) :
                     /\ \A x \in i..a : text[x] # " "
                     /\ a = Len(text) \/ text[a + 1] = " "
         IN  SubSeq(text, i, e)

SummaryOfComments(cs) ==
    IF cs.isNone \/ cs.n = 0 THEN <<>> ELSE extract_article_summary_from_comments(cs)

\* C5: after process_raw_data, a research submission whose url is neither
\* its permalink URL nor a '/r/' path has _real_url = url, whatever selftext
\* and title hold, and _summary = the extractor's output over its comments,
\* which is the empty string for None or empty comments; nothing is raised.
C5_Case3UrlVerbatim ==
    (Processed /\ Research /\ ExternalLink) =>
        /\ raised = "none"
        /\ submission._real_url = submission.url
        /\ submission._summary = SummaryOfComments(submission.comments)
        /\ (submission.comments.isNone => submission._summary = <<>>)

\* a processed external-link submission with comments None, a Markdown link
\* in its selftext and a URL in its title
C5_Witness ==
    /\ Processed /\ Research /\ ExternalLink
    /\ submission.comments.isNone
    /\ ContainsMarkdownLink(submission.selftext)
    /\ UrlStarts(submission.title) # {}
    /\ submission._summary = <<>>

\* C6: after process_raw_data, a research self-post whose selftext holds no
\* Markdown link has _real_url = the first bare URL of its title, None when
\* the title holds no URL, and _summary = its selftext, whatever its
\* comments are.
C6_Case1aUrlFromTitle ==
    (Processed /\ Research /\ SelfPost /\ ~ContainsMarkdownLink(submission.selftext)) =>
        /\ raised = "none"
        /\ submission._real_url = FirstBareUrl(submission.title)
        /\ submission._summary = submission.selftext

\* a processed self-post without a Markdown link but with a bare URL in its
\* selftext, two URLs in its title and comments never fetched
C6_Witness ==
    /\ Processed /\ Research /\ SelfPost
    /\ ~ContainsMarkdownLink(submission.selftext)
    /\ UrlStarts(submission.selftext) # {}
    /\ Cardinality(UrlStarts(submission.title)) = 2
    /\ submission.comments.isNone
    /\ submission._real_url = <<"S", "v">>

\* C7: after process_raw_data, a research self-post whose selftext is one
\* Markdown link and nothing else has _real_url = the link's target and
\* _summary = the extractor's output over its comments.
C7_Case1bSummaryFromComments ==
    (Processed /\ Research /\ SelfPost /\ IsOneLinkOnly(submission.selftext)) =>
        /\ submission._real_url = TargetOfOneLink(submission.selftext)
        /\ submission._summary = SummaryOfComments(submission.comments)

\* the statement of C7 for submissions whose comments were fetched
Case1bWithFetchedComments ==
    (Processed /\ Research /\ SelfPost /\ IsOneLinkOnly(submission.selftext)
       /\ ~submission.comments.isNone) =>
        /\ raised = "none"
        /\ submission._real_url = TargetOfOneLink(submission.selftext)
        /\ submission._summary = SummaryOfComments(submission.comments)

SelfDescribing(link) == Strip(link[1], {"*", "_"}) = link[2]

\* C8: after process_raw_data, a research self-post whose selftext holds a
\* Markdown link but is not one link only has _real_url = the target of the
\* first link whose label, stripped of leading and trailing '*' and '_',
\* equals its URL, or the target of the first link when no link is so, and
\* _summary = its selftext.
C8_Case1cFirstSelfDescribingLink ==
    (Processed /\ Research /\ SelfPost
       /\ ContainsMarkdownLink(submission.selftext)
       /\ ~IsOneLinkOnly(submission.selftext)) =>
        LET links == extract_markdown_urls(submission.selftext)
            good  == {i \in DOMAIN links : SelfDescribing(links[i])}
        IN  /\ raised = "none"
            /\ links # <<>>
            /\ submission._real_url =
                  IF good = {} THEN links[1][2]
                  ELSE links[CHOOSE i \in good : \A j \in good : i <= j][2]
            /\ submission._summary = submission.selftext

\* a processed self-post whose second link is the first with a label that
\* equals its URL once the '*' and '_' around it are stripped
C8_Witness ==
    /\ Processed /\ Research /\ SelfPost
    /\ submission.selftext = LINK_OTHER_LABEL \o LINK_STARRED_LABEL
    /\ submission._real_url = <<"S", "v">>
    /\ submission._summary = submission.selftext

\* C9: after process_raw_data has fetched the selftext of the cross-posted
\* submission for a research submission whose url starts with '/r/', exactly
\* one fetch was made, _real_url = the target of the first Markdown link of
\* the fetched text, else its first bare URL, else None, and _summary = the
\* fetched text: a function of the fetched text alone.
C9_Case2FromCrosspostText ==
    (Processed /\ Research /\ CrossPost) =>
        /\ fetches = 1
        /\ raised = "none" =>
              LET text  == submission._crosspost_selftext
                  links == extract_markdown_urls(text)
              IN  /\ text \in CrossTexts
                  /\ ContainsMarkdownLink(text) <=> links # <<>>
                  /\ submission._real_url =
                        IF links # <<>> THEN links[1][2] ELSE FirstBareUrl(text)
                  /\ submission._summary = text

\* a processed cross-post whose fetched text holds a bare URL before its
\* Markdown link, with an own selftext holding another link and comments None
C9_Witness ==
    /\ Processed /\ Research /\ CrossPost
    /\ raised = "none"
    /\ submission._crosspost_selftext = BARE_URL \o SPACE \o LINK_OTHER_LABEL
    /\ submission._real_url = <<"S", "w">>
    /\ submission.selftext = LINK_URL_LABEL
    /\ submission.comments.isNone

\* C10: after process_raw_data, a research submission whose comments are
\* None has _real_url and _summary set and nothing was raised (a failure of
\* the cross-post fetch aside), in each of the cases 1a, 1b, 1c, 2 and 3.
C10_AbsentCommentsAccepted ==
    (Processed /\ Research /\ submission.comments.isNone /\ raised # "FetchError") =>
        /\ raised = "none"
        /\ submission._real_url # ABSENT
        /\ submission._summary # ABSENT


(***************************************************************************)
(* Claims about repeated passes of process_raw_data                        *)
(***************************************************************************)
\* the second pass got from the cross-post fetch what the first pass got
SameFetch(log) == Len(log) = 2 => log[1] = log[2]

DerivedFields(s) == <<s._is_research, s._paper_type, s._real_url, s._summary>>

\* C11: a second application of process_raw_data to the record a first
\* application produced, with the cross-post fetch giving the same as
\* before, leaves _is_research, _paper_type, _real_url and _summary as they
\* were (and ends as the first did).
C11_SecondPassChangesNothing ==
    [][ (ppc = "done" /\ ppc' = "again" /\ SameFetch(fetchlog'))
          => (DerivedFields(submission') = DerivedFields(submission) /\ raised' = raised) ]_vars

\* a cross-post processed twice with the same fetched text, and with a
\* Markdown link in it
C11_Witness ==
    /\ ppc = "again"
    /\ Research /\ CrossPost
    /\ Len(fetchlog) = 2
    /\ fetchlog[1] = fetchlog[2]
    /\ ContainsMarkdownLink(fetchlog[1])
    /\ submission._real_url = <<"S", "w">>


(***************************************************************************)
(* get_doi_from_url.  A URL is a sequence of characters; "S" is the scheme *)
(* with its "://" and "%2F" is a percent-encoded "/".                      *)
(***************************************************************************)
\* \d{4,9} of PATTERN_STR_DOI
MinDoiDigits == 4
MaxDoiDigits == 9

DIGITS == {"0", "1", "2", "3", "4", "5", "6", "7", "8", "9"}
LETTERS == {"a", "d", "f", "q", "x"}

\* the characters of "https://" are word characters, ':' and '/'
IsDoiSuffixChar(c) == c \in DIGITS \cup LETTERS \cup {"-", ".", "_", ";", "(", ")", "/", ":", "S"}

\* requests.utils.unquote
Unquote(url) == [i \in DOMAIN url |-> IF url[i] = "%2F" THEN "/" ELSE url[i]]

\* end of the longest run of characters of class cls that starts at i
\* (i - 1 when u[i] is not of the class)
RECURSIVE ClassRunEnd(_, _, _)
ClassRunEnd(u, i, cls) ==
    IF i <= Len(u) /\ u[i] \in cls THEN ClassRunEnd(u, i + 1, cls) ELSE i - 1

SuffixChars(u) == {u[i] : i \in {j \in DOMAIN u : IsDoiSuffixChar(u[j])}}

\* '10.' of PATTERN_STR_DOI: the dot is not escaped and matches any character
DoiHead(u, p) == u[p + 2] = "1" /\ u[p + 3] = "0"

\* PATTERN_DOI_URL.fullmatch with \S+ ending at position p
DoiMatchAt(u, p) ==
    IF ~( /\ p >= 2
          /\ p + 5 <= Len(u)
          /\ u[1] = "S"
          /\ \A x \in 2..p : ~IsSpace(u[x])
          /\ u[p + 1] = "/"
          /\ DoiHead(u, p) )
    THEN [ ok |-> FALSE ]
    ELSE LET d == ClassRunEnd(u, p + 5, DIGITS)          \* last digit
             k == d - (p + 4)                             \* number of digits
             e == ClassRunEnd(u, d + 2, SuffixChars(u))   \* last suffix character
         IN  IF /\ k >= MinDoiDigits
                /\ k <= MaxDoiDigits
                /\ d + 2 <= Len(u)
                /\ u[d + 1] = "/"
                /\ e >= d + 2
                /\ e = Len(u) \/ u[e + 1] = "?"
             THEN [ ok |-> TRUE, doi |-> SubSeq(u, p + 2, e) ]
             ELSE [ ok |-> FALSE ]

\* the greedy \S+ takes the last position at which the rest matches
get_doi_from_url(url) ==
    LET u  == Unquote(url)
        ps == {p \in DOMAIN u : DoiMatchAt(u, p).ok}
    IN  IF ps = {} THEN None
        ELSE DoiMatchAt(u, CHOOSE p \in ps : \A q \in ps : q <= p).doi

DoiUrls ==
    { <<"S", "d", ".", "x", "/", "1", "0", ".", "1", "2", "3", "4", "/", "a", ".", "5">>,
      <<"S", "d", "/", "a", "/", "1", "0", ".", "1", "2", "3", "4", "5", "/", "x", "-", "1">>,
      <<"S", "d", "/", "1", "0", ".", "1", "2", "3", "4", "/", "a", "?", "q">>,
      <<"S", "d", "%2F", "1", "0", ".", "1", "2", "3", "4", "%2F", "a">>,
      <<"S", "d", "/", "1", "0", ".", "1", "2", "3", "/", "a">>,
      <<"S", "d", "/", "1", "0", ".", "1", "2", "3", "4", "5", "6", "7", "8", "9", "0", "/", "a">>,
      <<"S", "d", "/", "1", "0", ".", "1", "2", "3", "4", "/", "a", "#", "f">>,
      <<"S", "d", "/", "1", "0", "x", "1", "2", "3", "4", "/", "a">>,
      <<"S", "d", "/", "1", "0", "0", "1", "2", "3", "4", "/", "a">>,
      <<"S", "d", "/", "a">>,
      <<"S", "d", ".", "x">> }


(***************************************************************************)
(* fetch_article_metadata.  The web page of the article and the two        *)
(* Crossref requests are the environment: each step draws their outcome.   *)
(* `calls` lists, in order, what the call has done outside the function.   *)
(***************************************************************************)
TITLE == <<"t">>
HTML_DOI == <<"1", "0", ".", "5", "5", "5", "5", "/", "x">>

\* _get_html_from_url: None on any failure, otherwise the page
PageOutcomes == {"unreachable", "no_meta", "meta_name", "meta_property", "meta_without_content"}

get_doi_from_html(html) ==
    IF html \in {"meta_name", "meta_property"} THEN HTML_DOI ELSE None

\* cr.works(...)
WorksOutcomes == {"dict", "not_dict", "HTTPError", "Timeout", "ConnectionError"}

ArgumentsMissing_Either(title, url) == title = None \/ url = None

ArgumentsMissing(title, url) == title = None /\ url = None

\* what follows cr.works(ids=doi)
AfterLookup_AlwaysSearch(out) ==
    CASE out = "dict"      -> "return_message"
      [] out = "not_dict"  -> "fall_through"
      [] out = "HTTPError" -> "fall_through"
      [] OTHER             -> "raise"

AfterLookup(out) ==
    CASE out = "dict"      -> "return_message"
      [] out = "not_dict"  -> "return_none"
      [] out = "HTTPError" -> "fall_through"
      [] OTHER             -> "raise"

Returned(r, value) == [r EXCEPT !.pc = "returned", !.ret = value]
Raised(r, exception) == [r EXCEPT !.pc = "raised", !.ret = exception]

\* lines 220-228: the title search is next, or None is returned
ToTitleSearch(r) ==
    IF r.title # None THEN [r EXCEPT !.pc = "search"] ELSE Returned(r, "None")

\* lines 209-210: the id lookup is next when a DOI was found
ToLookup(r) ==
    IF r.doi # None THEN [r EXCEPT !.pc = "lookup"] ELSE ToTitleSearch(r)

NeedsPage_Always(doi) == TRUE

\* get_doi: `get_doi_from_url(url) or get_doi_from_html(_get_html_from_url(url))`
NeedsPage(doi) == doi = None

InitResolver ==
    /\ IdleExtract
    /\ IdleProcess
    /\ IdleMatcher
    /\ IdleDriver
    /\ \E title \in {None, TITLE}, url \in {None} \cup DoiUrls :
          resolver = [ pc |-> "start", title |-> title, url |-> url, doi |-> None,
                       calls |-> <<>>, page |-> "none", lookup |-> "none",
                       search |-> "none", ret |-> "none" ]

CheckArguments ==
    /\ resolver.pc = "start"
    /\ resolver' =
          IF ArgumentsMissing(resolver.title, resolver.url)
          THEN Raised(resolver, "ValueError")
          ELSE IF resolver.url = None
          THEN ToTitleSearch(resolver)
          ELSE LET doi == get_doi_from_url(resolver.url)
                   r   == [resolver EXCEPT !.doi = doi,
                                           !.calls = Append(@, "get_doi_from_url")]
               IN  IF NeedsPage(doi) THEN [r EXCEPT !.pc = "page"] ELSE ToLookup(r)
    /\ UNCHANGED <<extractVars, processVars, matcher, driver>>

FetchPage ==
    /\ resolver.pc = "page"
    /\ \E html \in PageOutcomes :
          resolver' = ToLookup([resolver EXCEPT !.doi = get_doi_from_html(html),
                                                !.page = html,
                                                !.calls = Append(@, "page_fetch")])
    /\ UNCHANGED <<extractVars, processVars, matcher, driver>>

LookupById ==
    /\ resolver.pc = "lookup"
    /\ \E out \in WorksOutcomes :
          LET r == [resolver EXCEPT !.lookup = out, !.calls = Append(@, "works_ids")]
          IN  resolver' =
                 CASE AfterLookup(out) = "return_message" -> Returned(r, "work")
                   [] AfterLookup(out) = "return_none"    -> Returned(r, "None")
                   [] AfterLookup(out) = "fall_through"   -> ToTitleSearch(r)
                   [] OTHER                               -> Raised(r, out)
    /\ UNCHANGED <<extractVars, processVars, matcher, driver>>

SearchByTitle ==
    /\ resolver.pc = "search"
    /\ \E out \in WorksOutcomes \ {"not_dict"} :
          LET r == [resolver EXCEPT !.search = out, !.calls = Append(@, "works_query")]
          IN  resolver' =
                 CASE out = "dict"      -> Returned(r, "work_list")
                   [] out = "HTTPError" -> Returned(r, "None")
                   [] OTHER             -> Raised(r, out)
    /\ UNCHANGED <<extractVars, processVars, matcher, driver>>

NextResolver == CheckArguments \/ FetchPage \/ LookupById \/ SearchByTitle

SpecResolver == InitResolver /\ [][NextResolver]_vars


(***************************************************************************)
(* Claims about fetch_article_metadata and get_doi_from_url                *)
(***************************************************************************)
ResolverDone == resolver.pc \in {"returned", "raised"}
Called(c) == \E i \in DOMAIN resolver.calls : resolver.calls[i] = c
CallIndex(c) == CHOOSE i \in DOMAIN resolver.calls : resolver.calls[i] = c
BothMissing == resolver.title = None /\ resolver.url = None

\* C13: once the arguments have been checked, the call has raised ValueError
\* exactly when title and url are both None, and it raised it before any
\* DOI extraction, page fetch or Crossref request.
C13_ValueErrorIffBothMissing ==
    resolver.pc # "start" =>
        /\ BothMissing => /\ resolver.pc = "raised"
                          /\ resolver.ret = "ValueError"
                          /\ resolver.calls = <<>>
        /\ ~BothMissing => resolver.ret # "ValueError"

C13_Witness ==
    /\ BothMissing
    /\ resolver.pc = "raised"
    /\ resolver.ret = "ValueError"

\* C14: the id lookup is made exactly when a DOI was found and comes before
\* any title search; the title search is made exactly when the title is not
\* None and either no DOI was found or the id lookup raised an HTTP error;
\* an id lookup that returned is never followed by a title search.
C14_LookupThenTitleSearch ==
    /\ (Called("works_ids") /\ Called("works_query"))
          => CallIndex("works_ids") < CallIndex("works_query")
    /\ resolver.lookup \in {"dict", "not_dict"} => ~Called("works_query")
    /\ (ResolverDone /\ resolver.ret # "ValueError") =>
          /\ Called("works_ids") <=> resolver.doi # None
          /\ Called("works_query") <=>
                /\ resolver.title # None
                /\ resolver.doi = None \/ resolver.lookup = "HTTPError"

C14_Witness ==
    /\ resolver.pc = "returned"
    /\ resolver.lookup = "HTTPError"
    /\ resolver.calls = <<"get_doi_from_url", "page_fetch", "works_ids", "works_query">>
    /\ resolver.ret = "work_list"

\* C15: with a title or a url given, the call never ends by raising, whatever
\* the Crossref requests did (success, HTTP error, timeout, connection error).
C15_RemoteFailuresNeverRaised ==
    (resolver.pc = "raised") => resolver.ret = "ValueError"

\* a DOI-shaped text starts at position i: "10.", 4-9 digits, "/", a suffix
DoiShapedAt(u, i) ==
    /\ i + 3 <= Len(u)
    /\ u[i] = "1" /\ u[i + 1] = "0" /\ u[i + 2] = "."
    /\ LET d == ClassRunEnd(u, i + 3, DIGITS)
       IN  /\ d - (i + 2) \in MinDoiDigits..MaxDoiDigits
           /\ d + 2 <= Len(u)
           /\ u[d + 1] = "/"
           /\ IsDoiSuffixChar(u[d + 2])

HasDoiSegment(u) == \E i \in 2..Len(u) : u[i - 1] = "/" /\ DoiShapedAt(u, i)

SuffixEnd(u, i) == ClassRunEnd(u, ClassRunEnd(u, i + 3, DIGITS) + 2, SuffixChars(u))

\* scheme, host and path, "/", DOI, then the end of the URL or a query string
DoiUrlShapeAt(u, i) ==
    /\ i >= 4
    /\ u[1] = "S"
    /\ u[i - 1] = "/"
    /\ DoiShapedAt(u, i)
    /\ SuffixEnd(u, i) = Len(u) \/ u[SuffixEnd(u, i) + 1] = "?"

\* C20: right after the URL pattern was applied, the DOI found is the DOI
\* part of a URL of the DOI shape (after URL-decoding), and is None for a
\* URL that has no DOI-shaped path segment.
C20_DoiOfDoiShapedUrl ==
    resolver.calls = <<"get_doi_from_url">> =>
        LET u == Unquote(resolver.url)
        IN  /\ \A i \in DOMAIN u :
                  DoiUrlShapeAt(u, i) => resolver.doi = SubSeq(u, i, SuffixEnd(u, i))
            /\ ~HasDoiSegment(u) => resolver.doi = None


(***************************************************************************)
(* closest_match.  SequenceMatcher(None, target, title).ratio() is drawn   *)
(* with the candidate: a title is given as its similarity to the target,   *)
(* in percent.  A choice without the key 'title' has has_title = FALSE.    *)
(***************************************************************************)
\* min_similarity: float = 0.8
MinSimilarityDefault == 80

Similarities == {0, 79, MinSimilarityDefault, 100}

TitleLists ==
    {<<>>} \cup {<<s>> : s \in Similarities}
           \cup {<<s1, s2>> : s1 \in Similarities, s2 \in Similarities}

Choices ==
    {[has_title |-> FALSE, title |-> <<>>]}
        \cup {[has_title |-> TRUE, title |-> tl] : tl \in TitleLists}

ChoiceLists == UNION {[1..n -> Choices] : n \in 0..MaxChoices}

IsCloser_OrEqual(similarity, highest_similarity) == similarity >= highest_similarity

IsCloser(similarity, highest_similarity) == similarity > highest_similarity

\* for title in choice['title']: ... from the k-th title on; st = closest_dict
\* (index into choices, 0 for None) and highest_similarity
RECURSIVE ScanTitles(_, _, _, _)
ScanTitles(titles, k, c, st) ==
    IF k > Len(titles) THEN st
    ELSE ScanTitles(titles, k + 1, c,
                    IF IsCloser(titles[k], st.highest_similarity)
                    THEN [closest_dict |-> c, highest_similarity |-> titles[k]]
                    ELSE st)

InitMatch ==
    /\ IdleExtract
    /\ IdleProcess
    /\ IdleResolver
    /\ IdleDriver
    /\ \E choices \in ChoiceLists, min_similarity \in {MinSimilarityDefault, 100} :
          matcher = [ pc |-> "loop", choices |-> choices, min_similarity |-> min_similarity,
                      next |-> 1, closest_dict |-> 0, highest_similarity |-> 0, ret |-> 0 ]

\* one iteration of `for choice in choices`
MatchChoice ==
    /\ matcher.pc = "loop"
    /\ matcher.next <= Len(matcher.choices)
    /\ LET c      == matcher.next
           choice == matcher.choices[c]
           st     == IF ~choice.has_title
                     THEN [closest_dict |-> matcher.closest_dict,
                           highest_similarity |-> matcher.highest_similarity]
                     ELSE ScanTitles(choice.title, 1, c,
                                     [closest_dict |-> matcher.closest_dict,
                                      highest_similarity |-> matcher.highest_similarity])
       IN  matcher' = [matcher EXCEPT !.next = c + 1,
                                      !.closest_dict = st.closest_dict,
                                      !.highest_similarity = st.highest_similarity]
    /\ UNCHANGED <<extractVars, processVars, resolver, driver>>

MatchReturn ==
    /\ matcher.pc = "loop"
    /\ matcher.next > Len(matcher.choices)
    /\ matcher' = [matcher EXCEPT
                      !.pc = "returned",
                      !.ret = IF matcher.highest_similarity >= matcher.min_similarity
                              THEN matcher.closest_dict ELSE 0]
    /\ UNCHANGED <<extractVars, processVars, resolver, driver>>

NextMatch == MatchChoice \/ MatchReturn

SpecMatch == InitMatch /\ [][NextMatch]_vars

\* the best similarity of the titles of choice c; the choices that have one
Best(c) ==
    LET tl == matcher.choices[c].title
    IN  CHOOSE s \in {tl[k] : k \in DOMAIN tl} : \A k \in DOMAIN tl : tl[k] <= s
Scored == {c \in DOMAIN matcher.choices :
              matcher.choices[c].has_title /\ matcher.choices[c].title # <<>>}
IsMaximum(c) == c \in Scored /\ \A o \in Scored : Best(o) <= Best(c)

Indices(n) == [i \in 1..n |-> i]

ListsOf(S) == UNION {[1..n -> S] : n \in 1..MaxRecords}

DriverSubmissions ==
    { RawSubmission("Poll", <<"w">>, <<>>, <<"S", "x">>, NoneComments),
      RawSubmission("Social Sciences", <<"w">>, <<>>, <<"S", "x">>, NoneComments),
      RawSubmission("Social Sciences", <<"w">>, <<>>, <<"/r/", "b">>, NoneComments),
      RawSubmission("Social Sciences", <<"w">>, LINK_URL_LABEL, REDDIT \o PERMALINK,
                    NoneComments) }

\* what reddit.submission(id).comments can give
FetchedComments == {MkForest(0, <<>>, <<>>), MkForest(1, <<0>>, <<TRUE>>)}

\* a record of the data file as fetch_metadata sees it
MetadataRecord(is_research) ==
    [ _is_research |-> is_research, _metadata |-> "null", _metadata_error |-> FALSE ]

\* fetch_article_metadata returns None, a work, or the message of a search
\* (with 'items'), or raises; closest_match then finds an item or None
ResolverResults == {"None", "work", "work_list", "Timeout", "ConnectionError"}

ToFetchMetadataFor(df) ==
    SelectSeq(Indices(Len(df)),
              LAMBDA i : /\ df[i]._is_research
                         /\ df[i]._metadata = "null"
                         /\ ~df[i]._metadata_error)

InitDrivers ==
    /\ IdleExtract
    /\ IdleProcess
    /\ IdleResolver
    /\ IdleMatcher
    /\ \/ \E subs \in ListsOf(DriverSubmissions) :
             driver = [ kind |-> "process_raw", pc |-> "loop", records |-> subs,
                        file |-> subs, todo |-> Indices(Len(subs)), failed |-> 0,
                        passes |-> 1, log |-> <<>> ]
       \/ \E subs \in ListsOf({[comments |-> c] : c \in {NoneComments} \cup FetchedComments}) :
             driver = [ kind |-> "fetch_comments", pc |-> "loop", records |-> subs,
                        file |-> subs, todo |-> Indices(Len(subs)), failed |-> 0,
                        passes |-> 1, log |-> <<>> ]
       \/ \E df \in ListsOf({MetadataRecord(b) : b \in BOOLEAN}) :
             driver = [ kind |-> "fetch_metadata", pc |-> "ready", records |-> df,
                        file |-> df, todo |-> <<>>, failed |-> 0,
                        passes |-> 0, log |-> <<>> ]

Abort_WritesFile(dr) ==
    [dr EXCEPT !.pc = "aborted", !.failed = Head(dr.todo), !.todo = Tail(dr.todo),
               !.file = dr.records]

\* the exception leaves the loop and the script: the file is not written
Abort(dr) == [dr EXCEPT !.pc = "aborted", !.failed = Head(dr.todo), !.todo = Tail(dr.todo)]

Advance(dr) == [dr EXCEPT !.todo = Tail(dr.todo)]

\* process_raw_data: one iteration of `for submission in submissions`
ProcessRecord ==
    /\ driver.kind = "process_raw"
    /\ driver.pc = "loop"
    /\ driver.todo # <<>>
    /\ LET i == Head(driver.todo)
       IN  \E fetched \in FetchOutcomes(driver.records[i]) :
              LET out == ProcessSubmission(driver.records[i], fetched)
                  dr  == [driver EXCEPT !.records[i] = out.rec]
              IN  driver' = IF out.raised # "none" THEN Abort(dr) ELSE Advance(dr)
    /\ UNCHANGED <<extractVars, processVars, resolver, matcher>>

\* fetch_comments.main: one iteration of `for submission in tqdm(submissions)`
FetchCommentsOf ==
    /\ driver.kind = "fetch_comments"
    /\ driver.pc = "loop"
    /\ driver.todo # <<>>
    /\ LET i == Head(driver.todo)
       IN  IF ~driver.records[i].comments.isNone
           THEN driver' = Advance(driver)
           ELSE \/ \E cs \in FetchedComments :
                      driver' = Advance([driver EXCEPT !.records[i].comments = cs])
                \/ driver' = Abort(driver)
    /\ UNCHANGED <<extractVars, processVars, resolver, matcher>>

\* fetch_metadata.py: read the file, add the columns, select the rows
StartPass ==
    /\ driver.kind = "fetch_metadata"
    /\ driver.pc \in {"ready", "written", "aborted"}
    /\ driver.passes < MaxPasses
    /\ driver' = [driver EXCEPT !.pc = "loop",
                                !.records = driver.file,
                                !.todo = ToFetchMetadataFor(driver.file),
                                !.failed = 0,
                                !.passes = @ + 1]
    /\ UNCHANGED <<extractVars, processVars, resolver, matcher>>

StoreMetadata_FlagAlways(rec, resolved, article_metadata) ==
    IF resolved = "None"
    THEN [rec EXCEPT !._metadata = "null"]
    ELSE [rec EXCEPT !._metadata = IF article_metadata = "None" THEN "null"
                                   ELSE article_metadata,
                     !._metadata_error = TRUE]

\* lines 62-71, article_metadata being what closest_match left of it
StoreMetadata(rec, resolved, article_metadata) ==
    IF resolved = "None"
    THEN [rec EXCEPT !._metadata = "null"]
    ELSE IF article_metadata = "None"
    THEN [rec EXCEPT !._metadata = "null", !._metadata_error = TRUE]
    ELSE [rec EXCEPT !._metadata = article_metadata, !._metadata_error = FALSE]

\* fetch_metadata: one iteration over rows_to_fetch_metadata_for
FetchMetadataRow ==
    /\ driver.kind = "fetch_metadata"
    /\ driver.pc = "loop"
    /\ driver.todo # <<>>
    /\ LET i == Head(driver.todo)
       IN  \E resolved \in ResolverResults, matched \in BOOLEAN :
              LET article_metadata ==
                      IF resolved = "work_list"
                      THEN (IF matched THEN "item" ELSE "None")
                      ELSE resolved
                  dr == [driver EXCEPT
                            !.log = Append(@, [ pass |-> driver.passes, index |-> i,
                                                before |-> driver.records[i],
                                                result |-> article_metadata ])]
              IN  /\ resolved # "work_list" => matched
                  /\ driver' =
                        IF resolved \in {"Timeout", "ConnectionError"}
                        THEN Abort(dr)
                        ELSE Advance([dr EXCEPT !.records[i] =
                                        StoreMetadata(driver.records[i], resolved,
                                                      article_metadata)])
    /\ UNCHANGED <<extractVars, processVars, resolver, matcher>>

\* the loop is over and the function returns
ReturnFromLoop ==
    /\ driver.pc = "loop"
    /\ driver.todo = <<>>
    /\ driver' = [driver EXCEPT !.pc = "done"]
    /\ UNCHANGED <<extractVars, processVars, resolver, matcher>>

WriteFile ==
    /\ driver.pc = "done"
    /\ driver' = [driver EXCEPT !.pc = "written", !.file = driver.records]
    /\ UNCHANGED <<extractVars, processVars, resolver, matcher>>

NextDrivers ==
    \/ ProcessRecord
    \/ FetchCommentsOf
    \/ StartPass
    \/ FetchMetadataRow
    \/ ReturnFromLoop
    \/ WriteFile

SpecDrivers == InitDrivers /\ [][NextDrivers]_vars


(***************************************************************************)
(* Claims about the drivers                                                *)
(***************************************************************************)
PassOver == driver.pc \in {"done", "written", "aborted"}
MetadataDriver == driver.kind = "fetch_metadata"
Attempts(i) == {a \in DOMAIN driver.log : driver.log[a].index = i}
Selected(rec) == rec._is_research /\ rec._metadata = "null" /\ ~rec._metadata_error

\* C12: when a pass of a driver is over, whether or not the processing of a
\* record failed in it, no record of the pass is left unprocessed.
C12_FailureLeavesNoRecordOut ==
    PassOver => driver.todo = <<>>

\* C17: in the data file and in the frame of a fetch_metadata pass, a record
\* is flagged _metadata_error only if some attempt for it gave no usable
\* result, no record has both metadata and the flag, and a record never
\* attempted has null metadata and no flag.
TriState(rec, i) ==
    /\ rec._metadata_error => \E a \in Attempts(i) : driver.log[a].result = "None"
    /\ ~(rec._metadata # "null" /\ rec._metadata_error)
    /\ Attempts(i) = {} => (rec._metadata = "null" /\ ~rec._metadata_error)

C17_TriStateMetadataStatus ==
    MetadataDriver =>
        \A i \in DOMAIN driver.file :
            TriState(driver.file[i], i) /\ TriState(driver.records[i], i)

C17_Witness ==
    /\ MetadataDriver
    /\ driver.pc = "written"
    /\ driver.passes = MaxPasses
    /\ Len(driver.file) = 2
    /\ driver.file[1]._metadata = "item" /\ ~driver.file[1]._metadata_error
    /\ driver.file[2]._metadata = "null" /\ driver.file[2]._metadata_error

\* C18: a record whose attempt gave no usable metadata is flagged as failed
\* from then on, and the resolver is not called for it again.
C18_NoRetryAfterFailedAttempt ==
    MetadataDriver =>
        \A i \in DOMAIN driver.records :
            \A a \in Attempts(i) :
                driver.log[a].result = "None" =>
                    /\ driver.records[i]._metadata_error
                    /\ \A b \in Attempts(i) : b <= a

\* C19: the resolver is called only for records that are research, without
\* metadata and not flagged; when a pass is over it has been called for every
\* such record of the file and every other record is as it was in the file;
\* a record whose call stored metadata is not looked up again.
C19_LookupExactlyForSelectedRecords ==
    MetadataDriver =>
        /\ \A a \in DOMAIN driver.log : Selected(driver.log[a].before)
        /\ (driver.pc \in {"done", "aborted"}) =>
              \A i \in DOMAIN driver.file :
                 IF Selected(driver.file[i])
                 THEN \E a \in Attempts(i) : driver.log[a].pass = driver.passes
                 ELSE driver.records[i] = driver.file[i]
        /\ \A i \in DOMAIN driver.records :
              \A a \in Attempts(i) :
                 driver.log[a].result \in {"work", "item"} => \A b \in Attempts(i) : b <= a


(***************************************************************************)
(* The deque extractor: frame and termination                              *)
(***************************************************************************)
\* the deque extractor alone; its loop is not starved: an iteration or the
\* return that can be taken is taken
NextDeque == DequeStep \/ DequeReturn

SpecDequeFair ==
    /\ InitExtract
    /\ [][NextDeque]_vars
    /\ WF_vars(DequeStep)
    /\ WF_vars(DequeReturn)

\* C25: no step of the call changes the input forest (root list, bodies,
\* is_submitter flags, replies lists and their order), and the function
\* applied again to the forest as the call left it gives the returned string.
C25_InputForestUntouched ==
    /\ [][comments' = comments]_vars
    /\ [](pc = "done" => result = extract_article_summary_from_comments(comments))

C25_Witness ==
    /\ pc = "done"
    /\ comments.n >= 3
    /\ Len(summary) >= 3
    /\ \E k \in 1..comments.n : Len(comments.replies[k]) >= 2 /\ comments.is_submitter[k]

\* C26: every comment is dequeued at most once, the loop makes at most as
\* many iterations as the forest has comments, and the call returns.
C26_LoopEndsWithinForestSize ==
    /\ [](/\ Len(popped) <= comments.n
          /\ \A a, b \in DOMAIN popped : popped[a] = popped[b] => a = b)
    /\ <>(pc = "done")

C26_Witness ==
    /\ pc = "done"
    /\ comments.n >= 3
    /\ Len(popped) = comments.n


\* C27: the page is fetched only after the URL pattern was tried and gave
\* no DOI, and it is fetched whenever the pattern gave none; when the page
\* gives no DOI either (not retrieved, no citation_doi meta tag, or a tag
\* without content) the DOI is None and nothing has been raised.
C27_PatternFirstThenPage ==
    /\ Called("page_fetch") =>
          /\ resolver.url # None
          /\ SubSeq(resolver.calls, 1, 2) = <<"get_doi_from_url", "page_fetch">>
          /\ get_doi_from_url(resolver.url) = None
    /\ (/\ resolver.url # None
        /\ resolver.pc \notin {"start", "page"}
        /\ get_doi_from_url(resolver.url) = None) => Called("page_fetch")
    /\ (/\ resolver.calls = <<"get_doi_from_url", "page_fetch">>
        /\ resolver.page \notin {"meta_name", "meta_property"})
          => (resolver.doi = None /\ resolver.pc # "raised")

C27_Witness ==
    /\ resolver.calls = <<"get_doi_from_url", "page_fetch">>
    /\ resolver.page = "unreachable"
    /\ resolver.doi = None
    /\ resolver.pc = "search"


\* C28: the file changes only in the write that follows a loop that has
\* completed for every record, and then becomes the records in memory; a
\* step that ends a pass by raising leaves the file as it was, so no record
\* whose step was started and not completed is persisted.
C28_FileWrittenAfterCompletedLoop ==
    [][ /\ driver'.file # driver.file =>
              /\ driver.pc = "done"
              /\ driver.failed = 0
              /\ driver.todo = <<>>
              /\ driver'.file = driver.records
        /\ driver'.pc = "aborted" => driver'.file = driver.file ]_vars

C28_Witness ==
    /\ driver.pc = "aborted"
    /\ driver.kind = "process_raw"
    /\ driver.failed = 2
    /\ driver.records[1] # driver.file[1]
    /\ driver.records[2]._is_research = "True"
    /\ driver.file[2]._is_research = "absent"


(***************************************************************************)
(* fetch_submissions.py.  Submissions are numbered by age: a larger id is  *)
(* a newer submission.  The feed (subreddit.new) lists the submissions     *)
(* that exist now, newest first; the file holds what an earlier run        *)
(* stored, newest first.  A stored submission can have left the feed.      *)
(***************************************************************************)
\* the ids of S, largest first
RECURSIVE Descending(_)
Descending(S) ==
    IF S = {} THEN <<>>
    ELSE LET top == CHOOSE x \in S : \A y \in S : y <= x
         IN  <<top>> \o Descending(S \ {top})

\* parse_submission: 'comments': None
ParsedSubmission(id) == [ id |-> id, comments |-> NoneComments ]

\* a record of an earlier run, with its comments fetched since
StoredSubmission(id) == [ id |-> id, comments |-> MkForest(0, <<>>, <<>>) ]

InitFetchSubmissions ==
    /\ IdleExtract
    /\ IdleProcess
    /\ IdleResolver
    /\ IdleMatcher
    /\ \E k \in 0..MaxId, listed \in SUBSET (1..MaxId) :
          LET old == [i \in 1..k |-> StoredSubmission(k + 1 - i)]
          IN  driver = [ kind |-> "fetch_submissions", pc |-> "loop",
                         old_submissions |-> old,
                         most_recent_submission_id |-> IF k > 0 THEN old[1].id ELSE 0,
                         feed |-> Descending(listed),
                         new_submissions |-> <<>>,
                         file |-> old ]

\* `if most_recent_submission_id is not None and submission.id == ...: break`
\* (0 stands for None)
StopsAt(id, most_recent_submission_id) ==
    most_recent_submission_id # 0 /\ id = most_recent_submission_id

\* one iteration of `for submission in reddit.subreddit(subreddit).new()`
FetchSubmission ==
    /\ driver.kind = "fetch_submissions"
    /\ driver.pc = "loop"
    /\ driver.feed # <<>>
    /\ driver' =
          IF StopsAt(Head(driver.feed), driver.most_recent_submission_id)
          THEN [driver EXCEPT !.pc = "break"]
          ELSE [driver EXCEPT !.feed = Tail(@),
                              !.new_submissions = Append(@, ParsedSubmission(Head(driver.feed)))]
    /\ UNCHANGED <<extractVars, processVars, resolver, matcher>>

\* the loop is left (break or end of feed) and the file is written
WriteSubmissions ==
    /\ driver.kind = "fetch_submissions"
    /\ driver.pc = "break" \/ (driver.pc = "loop" /\ driver.feed = <<>>)
    /\ driver' = [driver EXCEPT !.pc = "written",
                                !.file = driver.new_submissions \o driver.old_submissions]
    /\ UNCHANGED <<extractVars, processVars, resolver, matcher>>

NextFetchSubmissions == FetchSubmission \/ WriteSubmissions

SpecFetchSubmissions == InitFetchSubmissions /\ [][NextFetchSubmissions]_vars

\* C21: after fetch_submissions the file is the newly fetched submissions
\* followed by the records stored before, unchanged and in order; when a
\* most recent stored id was given every fetched submission is newer than
\* it; and no id occurs twice in the file, whatever the feed lists.
C21_OnlyNewerSubmissionsPrepended ==
    (driver.kind = "fetch_submissions" /\ driver.pc = "written") =>
        /\ driver.file = driver.new_submissions \o driver.old_submissions
        /\ driver.most_recent_submission_id # 0 =>
              \A i \in DOMAIN driver.new_submissions :
                  driver.new_submissions[i].id > driver.most_recent_submission_id
        /\ \A i, j \in DOMAIN driver.file :
              driver.file[i].id = driver.file[j].id => i = j


(***************************************************************************)
(* update_submission and the loop body of update_all_missing_flairs, on    *)
(* one stored record.  Three of the keys of parse_submission are kept      *)
(* (the others are treated by the same loop); a flag that was never set    *)
(* is "absent"; "<None>" is a flair of None.                               *)
(***************************************************************************)
FetchedKeys == <<"comments", "link_flair_text", "score">>

Snapshots == {MkForest(0, <<>>, <<>>), MkForest(1, <<0>>, <<TRUE>>)}

\* what reddit gives now: parse_submission with the comments fetched
UpdatedSubmissions ==
    [ comments : Snapshots, link_flair_text : {"<None>", "Social Sciences"},
      score : {1, 2} ]

SyncFlags == {"absent", "True", "False"}

StoredRecords ==
    [ comments : {NoneComments} \cup Snapshots,
      link_flair_text : {"<None>", "Social Sciences"},
      score : {1},
      _is_research : {"True"},
      _metadata_error : {FALSE},
      _synced_with_google_sheets : SyncFlags,
      _synced_with_zotero : SyncFlags ]

ForceResync(s) ==
    [s EXCEPT !._synced_with_google_sheets = "False", !._synced_with_zotero = "False"]

\* for key in updated_submission: if submission[key] != updated_submission[key]
RECURSIVE UpdateKeys(_, _, _)
UpdateKeys(submission_, updated_submission, keys) ==
    IF keys = <<>> THEN submission_
    ELSE LET key == Head(keys)
         IN  UpdateKeys(
                 IF submission_[key] # updated_submission[key]
                 THEN ForceResync([submission_ EXCEPT ![key] = updated_submission[key]])
                 ELSE submission_,
                 updated_submission, Tail(keys))

update_submission_AlwaysResync(submission_, updated_submission) ==
    ForceResync(UpdateKeys(submission_, updated_submission, FetchedKeys))

update_submission(submission_, updated_submission) ==
    UpdateKeys(submission_, updated_submission, FetchedKeys)

InitUpdate ==
    /\ IdleExtract
    /\ IdleProcess
    /\ IdleResolver
    /\ IdleMatcher
    /\ \E stored \in StoredRecords, updated \in UpdatedSubmissions :
          driver = [ kind |-> "update", pc |-> "ready", submission |-> stored,
                     before |-> stored, updated_submission |-> updated ]

UpdateSubmission ==
    /\ driver.kind = "update"
    /\ driver.pc = "ready"
    /\ driver' = [driver EXCEPT
                     !.pc = "updated",
                     !.submission = update_submission(driver.submission,
                                                      driver.updated_submission)]
    /\ UNCHANGED <<extractVars, processVars, resolver, matcher>>

\* update_all_missing_flairs: one iteration of the loop
UpdateMissingFlair ==
    /\ driver.kind = "update"
    /\ driver.pc = "ready"
    /\ LET s == driver.submission
           u == driver.updated_submission
       IN  driver' = [driver EXCEPT
                        !.pc = "flair_updated",
                        !.submission =
                            IF /\ s.link_flair_text = "<None>"
                               /\ s.link_flair_text # u.link_flair_text
                            THEN ForceResync([s EXCEPT !.link_flair_text = u.link_flair_text])
                            ELSE s]
    /\ UNCHANGED <<extractVars, processVars, resolver, matcher>>

NextUpdate == UpdateSubmission \/ UpdateMissingFlair

SpecUpdate == InitUpdate /\ [][NextUpdate]_vars

KeySet == {FetchedKeys[k] : k \in DOMAIN FetchedKeys}
Resynced(s) == s._synced_with_google_sheets = "False" /\ s._synced_with_zotero = "False"
SameFlags(s, b) ==
    /\ s._synced_with_google_sheets = b._synced_with_google_sheets
    /\ s._synced_with_zotero = b._synced_with_zotero
SameDerived(s, b) ==
    /\ s._is_research = b._is_research
    /\ s._metadata_error = b._metadata_error

\* C29: after update_submission every fetched field has the fresh value;
\* both sync flags are False if some fetched field (comments included)
\* differed from the stored one and are as before if none did; the other
\* derived fields are as before.  The flair updater does the same for a
\* missing flair.
C29_ResyncExactlyOnChange ==
    LET s == driver.submission
        b == driver.before
        u == driver.updated_submission
    IN  /\ driver.pc = "updated" =>
              /\ \A key \in KeySet : s[key] = u[key]
              /\ IF \E key \in KeySet : b[key] # u[key]
                 THEN Resynced(s) ELSE SameFlags(s, b)
              /\ SameDerived(s, b)
        /\ driver.pc = "flair_updated" =>
              /\ IF s.link_flair_text # b.link_flair_text
                 THEN Resynced(s) ELSE s = b
              /\ SameDerived(s, b)

C29_Witness ==
    /\ driver.pc = "updated"
    /\ driver.before._synced_with_google_sheets = "True"
    /\ driver.before._synced_with_zotero = "True"
    /\ driver.before.comments # driver.updated_submission.comments
    /\ ~driver.before.comments.isNone
    /\ driver.before.score = driver.updated_submission.score
    /\ Resynced(driver.submission)


(***************************************************************************)
(* The pipeline of start.py on the data of one subreddit.  Each script     *)
(* resolves its data file from its arguments, reads it, works on the       *)
(* records and writes it.  One submission exists on reddit; a file is      *)
(* "missing", or the list of its records (empty, or that submission).      *)
(***************************************************************************)
SUBREDDITS == {<<"M", "a">>, <<"F", "e">>}

\* str.lower
LowerName(name) ==
    [i \in DOMAIN name |-> CASE name[i] = "M" -> "m"
                             [] name[i] = "F" -> "f"
                             [] OTHER -> name[i]]

PipelineScripts ==
    {"fetch_submissions", "fetch_comments", "update_recent_submissions_and_comments",
     "process_raw", "fetch_metadata", "sync_with_google_sheets"}

\* the f-string of each parse_args: f'r_{...}.json', or f'{...}.json'
FilenamePrefix(script) ==
    CASE script = "fetch_submissions" -> <<"r_">>
      [] script = "fetch_comments" -> <<"r_">>
      [] script = "update_recent_submissions_and_comments" -> <<>>
      [] script = "process_raw" -> <<"r_">>
      [] script = "fetch_metadata" -> <<"r_">>
      [] script = "sync_with_google_sheets" -> <<"r_">>

\* filename = f'<prefix>{args.filename or args.subreddit.lower()}.json'
FilePath(script, subreddit, filename) ==
    FilenamePrefix(script)
        \o (IF filename # None THEN filename ELSE LowerName(subreddit))
        \o <<".json">>

Missing == "missing"

\* the record fetch_submissions stores for the submission
FetchedRecord ==
    RawSubmission("Social Sciences", <<"w">>, <<>>, <<"S", "x">>, NoneComments)
        @@ [ score |-> 1, _metadata |-> "null", _metadata_error |-> FALSE,
             _synced_with_google_sheets |-> "absent", _synced_with_zotero |-> "absent" ]

\* the data files a run over the subreddit can name
DataPaths(subreddit) ==
    {FilePath(script, subreddit, None) : script \in PipelineScripts}

InitPipeline ==
    /\ IdleExtract
    /\ IdleProcess
    /\ IdleResolver
    /\ IdleMatcher
    /\ \E subreddit \in SUBREDDITS :
          driver = [ kind |-> "pipeline", pc |-> "between", subreddit |-> subreddit,
                     files |-> [path \in DataPaths(subreddit) |-> Missing],
                     before |-> [path \in DataPaths(subreddit) |-> Missing],
                     last |-> "none", used |-> {} ]

\* a script has run with the given --filename: the file it named holds
\* `content` now (Missing: the script did not write); `before` keeps the
\* files as the run found them, `used` the paths resolved without --filename
Ran(script, filename, content) ==
    LET path == FilePath(script, driver.subreddit, filename)
    IN  driver' = [driver EXCEPT
                      !.files[path] = IF content = Missing THEN @ ELSE content,
                      !.before = driver.files,
                      !.last = script,
                      !.used = IF filename = None THEN @ \cup {path} ELSE @]

\* json.loads(file_path.read_text()) if file_path.exists() else []
ReadRecords(script, filename) ==
    LET content == driver.files[FilePath(script, driver.subreddit, filename)]
    IN  IF content = Missing THEN <<>> ELSE content

RunFetchSubmissions ==
    /\ driver.kind = "pipeline"
    /\ LET old_submissions == ReadRecords("fetch_submissions", None)
       IN  \E listed \in BOOLEAN :
              Ran("fetch_submissions", None,
                  IF old_submissions = <<>> /\ listed
                  THEN <<FetchedRecord>> \o old_submissions
                  ELSE old_submissions)
    /\ UNCHANGED <<extractVars, processVars, resolver, matcher>>

RunFetchComments_Refetches ==
    /\ driver.kind = "pipeline"
    /\ LET submissions == ReadRecords("fetch_comments", None)
       IN  IF submissions # <<>>
           THEN \/ \E cs \in Snapshots :
                      Ran("fetch_comments", None,
                          <<[submissions[1] EXCEPT !.comments = cs]>>)
                \/ Ran("fetch_comments", None, Missing)
           ELSE Ran("fetch_comments", None, submissions)
    /\ UNCHANGED <<extractVars, processVars, resolver, matcher>>

\* only submissions whose comments are None are fetched
RunFetchComments ==
    /\ driver.kind = "pipeline"
    /\ LET submissions == ReadRecords("fetch_comments", None)
       IN  IF submissions # <<>> /\ submissions[1].comments.isNone
           THEN \/ \E cs \in Snapshots :
                      Ran("fetch_comments", None,
                          <<[submissions[1] EXCEPT !.comments = cs]>>)
                \/ Ran("fetch_comments", None, Missing)
           ELSE Ran("fetch_comments", None, submissions)
    /\ UNCHANGED <<extractVars, processVars, resolver, matcher>>

\* with its own default file name, or with --filename naming the file of
\* the other scripts
RunUpdateRecent ==
    /\ driver.kind = "pipeline"
    /\ \E filename \in {None, <<"r_">> \o LowerName(driver.subreddit)} :
          LET script == "update_recent_submissions_and_comments"
              submissions == ReadRecords(script, filename)
          IN  \E recent \in BOOLEAN :
                 IF submissions # <<>> /\ recent
                 THEN \/ \E updated \in UpdatedSubmissions :
                            Ran(script, filename,
                                <<update_submission(submissions[1], updated)>>)
                      \/ Ran(script, filename, Missing)
                 ELSE Ran(script, filename, submissions)
    /\ UNCHANGED <<extractVars, processVars, resolver, matcher>>

RunProcessRaw ==
    /\ driver.kind = "pipeline"
    /\ LET submissions == ReadRecords("process_raw", None)
       IN  IF submissions = <<>> THEN Ran("process_raw", None, submissions)
           ELSE LET out == ProcessSubmission(submissions[1], NOT_FETCHED)
                IN  Ran("process_raw", None,
                        IF out.raised # "none" THEN Missing ELSE <<out.rec>>)
    /\ UNCHANGED <<extractVars, processVars, resolver, matcher>>

\* an empty frame, or one without the column _is_research, raises KeyError
RunFetchMetadata ==
    /\ driver.kind = "pipeline"
    /\ LET df == ReadRecords("fetch_metadata", None)
       IN  IF df = <<>> \/ df[1]._is_research = "absent"
           THEN Ran("fetch_metadata", None, Missing)
           ELSE IF ~(/\ df[1]._is_research = "True"
                     /\ df[1]._metadata = "null"
                     /\ ~df[1]._metadata_error)
           THEN Ran("fetch_metadata", None, df)
           ELSE \E resolved \in ResolverResults, matched \in BOOLEAN :
                   LET article_metadata ==
                           IF resolved = "work_list"
                           THEN (IF matched THEN "item" ELSE "None")
                           ELSE resolved
                   IN  /\ resolved # "work_list" => matched
                       /\ Ran("fetch_metadata", None,
                              IF resolved \in {"Timeout", "ConnectionError"}
                              THEN Missing
                              ELSE <<StoreMetadata(df[1], resolved, article_metadata)>>)
    /\ UNCHANGED <<extractVars, processVars, resolver, matcher>>

\* nothing to upload, or the upload fails, or every row is flagged synced
RunSyncWithGoogleSheets ==
    /\ driver.kind = "pipeline"
    /\ LET df == ReadRecords("sync_with_google_sheets", None)
       IN  IF df = <<>> \/ df[1]._synced_with_google_sheets = "True"
           THEN Ran("sync_with_google_sheets", None, Missing)
           ELSE \/ Ran("sync_with_google_sheets", None, Missing)
                \/ Ran("sync_with_google_sheets", None,
                       <<[df[1] EXCEPT !._synced_with_google_sheets = "True"]>>)
    /\ UNCHANGED <<extractVars, processVars, resolver, matcher>>

NextPipeline ==
    \/ RunFetchSubmissions
    \/ RunFetchComments
    \/ RunUpdateRecent
    \/ RunProcessRaw
    \/ RunFetchMetadata
    \/ RunSyncWithGoogleSheets

SpecPipeline == InitPipeline /\ [][NextPipeline]_vars


(***************************************************************************)
(* Claims about the pipeline.                                              *)
(***************************************************************************)
\* the file fetch_submissions writes for the subreddit
SubmissionsPath(d) == FilePath("fetch_submissions", d.subreddit, None)

HasRecord(content) == content # Missing /\ content # <<>>

\* the stored submission kept its place and its comments field differs
CommentsChanged(old, new) ==
    /\ HasRecord(old)
    /\ HasRecord(new)
    /\ old[1].comments # new[1].comments

\* C30, as claimed: the steps start.py runs for a subreddit, each without
\* --filename, all resolve to one and the same data file path.
C30_OneDataFilePerSubreddit ==
    driver.kind = "pipeline" => \A p, q \in driver.used : p = q

\* C24, as claimed: over any sequence of pipeline steps the comments field
\* of a stored submission changes only from None to a populated snapshot; a
\* populated comments field is never replaced.
C24_CommentsChangeOnlyFromNone ==
    [][ CommentsChanged(driver.files[SubmissionsPath(driver)],
                        driver'.files[SubmissionsPath(driver)])
          => /\ driver.files[SubmissionsPath(driver)][1].comments.isNone
             /\ ~driver'.files[SubmissionsPath(driver)][1].comments.isNone ]_vars

\* C24, amended: the comments field of a stored submission is never reset to
\* None, and a populated comments field is replaced by no step other than
\* update_recent_submissions_and_comments, which stores the freshly fetched
\* snapshot when it differs.
C24_PopulatedCommentsReplacedOnlyByUpdate ==
    [][ CommentsChanged(driver.files[SubmissionsPath(driver)],
                        driver'.files[SubmissionsPath(driver)])
          => /\ ~driver'.files[SubmissionsPath(driver)][1].comments.isNone
             /\ \/ driver.files[SubmissionsPath(driver)][1].comments.isNone
                \/ driver'.last = "update_recent_submissions_and_comments" ]_vars

\* the update step has just replaced a populated snapshot by another one
C24_Witness ==
    /\ driver.kind = "pipeline"
    /\ driver.last = "update_recent_submissions_and_comments"
    /\ CommentsChanged(driver.before[SubmissionsPath(driver)],
                       driver.files[SubmissionsPath(driver)])
    /\ ~driver.before[SubmissionsPath(driver)][1].comments.isNone
    /\ ~driver.files[SubmissionsPath(driver)][1].comments.isNone


(***************************************************************************)
(* The manual Zotero checklist: fetch_metadata, sync_with_zotero,          *)
(* create_manual_zotero_checklist and handle_manually_synced_files on one  *)
(* data file of two submissions, and the user who checks items of the      *)
(* generated checklist.                                                    *)
(***************************************************************************)
Permalinks == << <<"/r/", "a">>, <<"/r/", "b">> >>

\* a stored row as process_raw leaves it; _metadata_failed is a key of the
\* data file that create_manual_zotero_checklist reads
ZoteroRows(permalink) ==
    { MetadataRecord(is_research)
        @@ [ permalink |-> permalink, removed_by_category |-> removed,
             _metadata_failed |-> failed, _synced_with_zotero |-> FALSE,
             _zotero_sync_error |-> "None", _manually_synced_with_zotero |-> FALSE ]
      : is_research \in BOOLEAN, removed \in {"null", "moderator"},
        failed \in BOOLEAN }

InitZotero ==
    /\ IdleExtract
    /\ IdleProcess
    /\ IdleResolver
    /\ IdleMatcher
    /\ \E a \in ZoteroRows(Permalinks[1]), b \in ZoteroRows(Permalinks[2]) :
          driver = [ kind |-> "zotero", pc |-> "between", records |-> <<a, b>>,
                     checklist |-> Missing, last |-> "none", uploaded |-> {} ]

\* fetch_metadata over the file; a run that raises writes nothing
ZoteroFetchMetadata ==
    /\ driver.kind = "zotero"
    /\ \E outcome \in [DOMAIN driver.records -> {"None", "no_match", "item"}] :
          driver' = [driver EXCEPT
             !.last = "fetch_metadata",
             !.records = [i \in DOMAIN driver.records |->
                 IF \E k \in DOMAIN ToFetchMetadataFor(driver.records) :
                       ToFetchMetadataFor(driver.records)[k] = i
                 THEN StoreMetadata(driver.records[i],
                                    IF outcome[i] = "None" THEN "None" ELSE "work_list",
                                    IF outcome[i] = "item" THEN "item" ELSE "None")
                 ELSE driver.records[i]]]
    /\ UNCHANGED <<extractVars, processVars, resolver, matcher>>

\* lines 102-103 of create_manual_zotero_checklist
ChecklistCandidates(submissions) ==
    SelectSeq(submissions,
              LAMBDA s : s._is_research /\ ~s._manually_synced_with_zotero)

MetadataFailLine(s) ==
    [ kind |-> "metadata", permalink |-> s.permalink, error |-> <<>>, checked |-> FALSE ]

ZoteroFailLine(s) ==
    [ kind |-> "zotero", permalink |-> s.permalink,
      error |-> <<", error=\"", s._zotero_sync_error, "\"">>, checked |-> FALSE ]

\* the items of the Markdown, in the order of the submissions
get_metadata_fail_md(submissions) ==
    LET fails == SelectSeq(submissions, LAMBDA s : s._metadata_failed)
    IN  [i \in DOMAIN fails |-> MetadataFailLine(fails[i])]

get_zot_fails_md(submissions) ==
    LET zot_fails == SelectSeq(submissions, LAMBDA s : s._zotero_sync_error # "None")
    IN  [i \in DOMAIN zot_fails |-> ZoteroFailLine(zot_fails[i])]

\* writes the checklist when there is a failure, deletes it otherwise
CreateChecklist ==
    /\ driver.kind = "zotero"
    /\ LET submissions == ChecklistCandidates(driver.records)
           md == get_metadata_fail_md(submissions) \o get_zot_fails_md(submissions)
       IN  driver' = [driver EXCEPT
                         !.last = "create_manual_zotero_checklist",
                         !.checklist = IF md # <<>> THEN md ELSE Missing]
    /\ UNCHANGED <<extractVars, processVars, resolver, matcher>>

\* the user replaces `[ ]` by `[x]` in one item
CheckItem ==
    /\ driver.kind = "zotero"
    /\ driver.checklist # Missing
    /\ \E i \in DOMAIN driver.checklist :
          /\ ~driver.checklist[i].checked
          /\ driver' = [driver EXCEPT !.last = "user",
                                      !.checklist[i].checked = TRUE]
    /\ UNCHANGED <<extractVars, processVars, resolver, matcher>>

\* group `permalink` of the fullmatch: (?P<permalink>.+) is greedy and the
\* error group optional, so it takes the line to its end
MatchedPermalink(line) == line.permalink \o line.error

\* handle_manually_synced_files
manually_synced(md) ==
    {MatchedPermalink(md[i]) : i \in {j \in DOMAIN md : md[j].checked}}

HandleManuallySynced ==
    /\ driver.kind = "zotero"
    /\ driver.checklist # Missing
    /\ driver' = [driver EXCEPT
          !.last = "handle_manually_synced_files",
          !.records = [i \in DOMAIN driver.records |->
              IF driver.records[i].permalink \in manually_synced(driver.checklist)
              THEN [driver.records[i] EXCEPT !._manually_synced_with_zotero = TRUE]
              ELSE driver.records[i]]]
    /\ UNCHANGED <<extractVars, processVars, resolver, matcher>>

\* the rows parse_data_for_zotero turns into items
parse_data_for_zotero(df) ==
    { i \in DOMAIN df :
        /\ df[i]._is_research
        /\ df[i].removed_by_category = "null"
        /\ ~(df[i]._synced_with_zotero \/ df[i]._zotero_sync_error # "None") }

\* sync_with_zotero: every item is created, unchanged, or failed; a run
\* that exits on an error of the library writes nothing
SyncWithZotero ==
    /\ driver.kind = "zotero"
    /\ LET items == parse_data_for_zotero(driver.records)
       IN  \/ \E success \in SUBSET items :
                 driver' = [driver EXCEPT
                    !.last = "sync_with_zotero",
                    !.uploaded = @ \cup {driver.records[i].permalink : i \in success},
                    !.records = [i \in DOMAIN driver.records |->
                        IF i \in success
                        THEN [driver.records[i] EXCEPT !._synced_with_zotero = TRUE,
                                                       !._zotero_sync_error = "None"]
                        ELSE IF i \in items
                        THEN [driver.records[i] EXCEPT !._zotero_sync_error = "e"]
                        ELSE driver.records[i]]]
           \/ driver' = [driver EXCEPT !.last = "sync_with_zotero"]
    /\ UNCHANGED <<extractVars, processVars, resolver, matcher>>

NextZotero ==
    \/ ZoteroFetchMetadata
    \/ CreateChecklist
    \/ CheckItem
    \/ HandleManuallySynced
    \/ SyncWithZotero

SpecZotero == InitZotero /\ [][NextZotero]_vars

C23_ChecklistHoldsEveryMetadataFailure ==
    (driver.kind = "zotero" /\ driver.last = "create_manual_zotero_checklist") =>
        \A i \in DOMAIN driver.records :
            (/\ driver.records[i]._is_research
             /\ ~driver.records[i]._manually_synced_with_zotero
             /\ driver.records[i]._metadata_error)
                => /\ driver.checklist # Missing
                   /\ \E j \in DOMAIN driver.checklist :
                         /\ driver.checklist[j].kind = "metadata"
                         /\ driver.checklist[j].permalink = driver.records[i].permalink
                         /\ ~driver.checklist[j].checked

====
